---- MODULE Spec2Model ----
(***************************************************************************)
(* Model of image_app/views.py: process_image_orientation, compress_image  *)
(* and compress_image_to_kb.  One behaviour is one call of one of these    *)
(* functions; Init draws the function and its arguments.  In EndpointSpec  *)
(* one behaviour is one POST request to one of the seven views that call   *)
(* these functions; EpInit draws the view and the request.                 *)
(*                                                                         *)
(* An image is a record [width, height, mode, turned]: `turned` is the     *)
(* counter-clockwise rotation (degrees) applied to the pixel data since    *)
(* it was decoded.  Scale factors are kept in tenths (1.0 is 10, 0.9 is 9) *)
(* so that all arithmetic stays in the integers.  Encoded bytes are a      *)
(* record naming the encode that produced them, [factor, quality, size],   *)
(* whose length is `size`.  The external JPEG codec may return any size    *)
(* from EncodeSizes for any encode.                                        *)
(***************************************************************************)
EXTENDS Integers, Sequences, FiniteSets

VARIABLES
    fn,               \* the function being executed
    pc,               \* position in that function
    image,            \* the local `image` (rebound by convert/resize/rotate)
    exif,             \* what image._getexif() yields for the argument
    tryFails,         \* TRUE when something raises inside the try block (38-49)
    target_size_kb,
    max_iterations,
    max_dimension,
    quality,
    dimIdx,           \* index into dimension_reductions of the outer loop
    working_image,
    iteration,
    low_quality,
    high_quality,
    current_quality,
    compressed_data,
    best_result,
    best_stats,
    ret,              \* the returned value, None until the function returns
    path,             \* history: the return statement taken
    probes,           \* history: number of encodes made inside the search
    probedScales,     \* history: scale factors at which a probe was made, in order
    minDelta,         \* history: smallest |size - target| of any probe, -1 if none
    encModes,         \* history: colour modes handed to image.save
    arg_image,        \* history: the image as it was passed to compress_image
    hitScales,        \* history: scale factors with a probe within 10% of the target
    trail,            \* history: the probes made at the current scale factor, in order
    encodes,          \* history: number of calls of image.save
    endpoint,         \* the view handling the request, NoEndpoint in a direct call
    epc,              \* position in that view
    request,          \* the POST request: the uploaded file and the form fields
    response,         \* the HTTP response, None until the view returns
    exc,              \* what raised inside the view's try block, NoExc if nothing
    calls             \* history: the calls the view made, in order

vars == <<fn, pc, image, exif, tryFails, target_size_kb, max_iterations,
          max_dimension, quality, dimIdx, working_image, iteration,
          low_quality, high_quality, current_quality, compressed_data,
          best_result, best_stats, ret, path, probes, probedScales,
          minDelta, encModes, arg_image, hitScales, trail, encodes,
          endpoint, epc, request, response, exc, calls>>

\* Python's None, as a record so that it compares with records
None == [none |-> TRUE]

NoPath == "none"

(***************************************************************************)
(* Bounds of the model.                                                    *)
(***************************************************************************)
MaxSide == 2          \* the larger of the two image sides tried
MaxTargetKB == 5      \* target_size_kb ranges over MinTargetKB..MaxTargetKB
MaxIterations == 6    \* max_iterations ranges over 0..MaxIterations
MaxOrientation == 9   \* Orientation tag values range over 0..MaxOrientation

(***************************************************************************)
(* Program constants.                                                      *)
(***************************************************************************)
\* a changed min_quality: the codec's own lowest quality
min_quality_codec == 2 - 1

min_quality == 10
quality_start_wide == 2 * 95
quality_start == 95
MinTargetKB == 5
MaxAllowedKB == 1000
default_max_dimension == 3000

\* a changed list: the same factors, smallest first
dimension_reductions_ascending == <<5, 6, 7, 8, 9, 10>>

\* dimension_reductions = [1.0, 0.9, 0.8, 0.7, 0.6, 0.5], in tenths
dimension_reductions == <<10, 9, 8, 7, 6, 5>>

Abs(x) == IF x < 0 THEN -x ELSE x

Min(a, b) == IF a < b THEN a ELSE b

Max(a, b) == IF a > b THEN a ELSE b

(***************************************************************************)
(* The external codec (Pillow).                                            *)
(***************************************************************************)
\* Colour modes a decoded image may have.
Modes == {"RGB", "RGBA", "P", "L", "LA", "CMYK"}

\* image.save(format='JPEG') writes these modes and raises OSError for the
\* others ("cannot write mode LA as JPEG").
JpegModes == {"RGB", "L", "CMYK"}

\* image.convert('RGB') under the test `image.mode in ('RGBA', 'P')`.
ConvertedMode(m) == IF m \in {"RGBA", "P"} THEN "RGB" ELSE m

\* int(dim * dimension_factor), the factor in tenths.  For the sides of the
\* model (below 90) the float product truncates to the exact quotient.
ScaledDim(dim, tenths) == (dim * tenths) \div 10

\* image.resize(size) raises ValueError unless both sides are at least 1.
ResizeOk(w, h) == w >= 1 /\ h >= 1

\* target_size_bytes = target_size_kb * 1024
TargetBytes(kb) == kb * 1024

\* Byte counts the encoder may return for one encode, placed around the
\* target: on the 5% boundary, on the 10% boundary, one byte outside the 10%
\* band on either side (equal deviations), and far above.
EncodeSizes(t) ==
    { t - (t \div 20), t + (t \div 10), t - (t \div 10) - 1, t + (t \div 10) + 1, 2 * t }

\* a changed test: the 5% boundary itself refused
WithinTight_strict(size, t) == 20 * Abs(size - t) < t

\* abs(compressed_size - target_size_bytes) <= target_size_bytes * 0.05
WithinTight(size, t) == 20 * Abs(size - t) <= t

\* a changed test: the 10% boundary itself refused
WithinRelaxed_strict(size, t) == 10 * Abs(size - t) < t

\* abs(best_stats['compressed_size'] - target_size_bytes) <= target_size_bytes * 0.1
WithinRelaxed(size, t) == 10 * Abs(size - t) <= t

\* a changed dict: the two sides exchanged
Stats_swapped(w, h, size, q, f) ==
    [final_width |-> h, final_height |-> w, compressed_size |-> size,
     quality_used |-> q, dimension_factor |-> f]

\* the stats dict built at lines 150-156, 162-168 and 191-197
Stats(w, h, size, q, f) ==
    [final_width |-> w, final_height |-> h, compressed_size |-> size,
     quality_used |-> q, dimension_factor |-> f]

\* output_buffer.getvalue(): the bytes of one encode
Bytes(f, q, size) == [factor |-> f, quality |-> q, size |-> size]

\* a changed midpoint: rounded up
MidQuality_up(lo, hi) == (lo + hi + 1) \div 2

\* current_quality = (low_quality + high_quality) // 2
MidQuality(lo, hi) == (lo + hi) \div 2

\* a changed loop bound: one round too many
LoopDone_late(it, m) == it > m

\* range(max_iterations) is exhausted after max_iterations rounds
LoopDone(it, m) == it >= m

\* a changed loop: the break left out
SearchDone_never(lo, hi) == FALSE

\* a changed loop: the break one step late
SearchDone_late(lo, hi) == lo > hi

\* `if low_quality >= high_quality: break`
SearchDone(lo, hi) == lo >= hi

\* a changed comparison: a candidate of equal deviation replaces the best
IsBetter_orEqual(size, t) ==
    \/ best_result = None
    \/ Abs(size - t) <= Abs(best_stats.compressed_size - t)

\* a changed comparison: the candidate farther from the target is kept
IsBetter_farther(size, t) ==
    \/ best_result = None
    \/ Abs(size - t) > Abs(best_stats.compressed_size - t)

\* a changed comparison: no candidate is ever stored
IsBetter_never(size, t) == FALSE

\* `best_result is None or abs(...) < abs(best_stats[...] - target)`
IsBetter(size, t) ==
    \/ best_result = None
    \/ Abs(size - t) < Abs(best_stats.compressed_size - t)

(***************************************************************************)
(* compress_image_to_kb                                                    *)
(***************************************************************************)
KB == "compress_image_to_kb"

kbLocals == <<dimIdx, working_image, iteration, low_quality, high_quality,
              current_quality, compressed_data, best_result, best_stats>>

kbHistory == <<probes, probedScales, minDelta>>

kbTrail == <<hitScales, trail>>

\* the state of the calling view
caller == <<endpoint, epc, request, response, exc, calls>>

args == <<fn, exif, tryFails, target_size_kb, max_iterations, max_dimension, quality,
          arg_image, caller>>

Return(data, stats, by) ==
    /\ ret' = [data |-> data, stats |-> stats]
    /\ path' = by
    /\ pc' = "done"

Raise ==
    /\ pc' = "raised"
    /\ UNCHANGED <<ret, path>>

\* lines 100-114: the RGB conversion and the initial bindings
KbEnter ==
    /\ fn = KB /\ pc = "kb_enter"
    /\ image' = [image EXCEPT !.mode = ConvertedMode(image.mode)]
    /\ dimIdx' = 1
    /\ pc' = "kb_scale"
    /\ UNCHANGED <<args, working_image, iteration, low_quality, high_quality,
                   current_quality, compressed_data, best_result, best_stats,
                   ret, path, kbHistory, kbTrail, encModes, encodes>>

\* lines 116-129: the head of the loop over dimension_reductions
KbScale ==
    /\ fn = KB /\ pc = "kb_scale"
    /\ IF dimIdx > Len(dimension_reductions)
       THEN /\ pc' = "kb_best"
            /\ UNCHANGED <<working_image, iteration, low_quality, high_quality, ret, path>>
       ELSE LET f == dimension_reductions[dimIdx]
                w == IF f < 10 THEN ScaledDim(image.width, f) ELSE image.width
                h == IF f < 10 THEN ScaledDim(image.height, f) ELSE image.height
            IN  IF f < 10 /\ ~ResizeOk(w, h)
                THEN /\ Raise
                     /\ UNCHANGED <<working_image, iteration, low_quality, high_quality>>
                ELSE /\ working_image' = [image EXCEPT !.width = w, !.height = h]
                     /\ low_quality' = min_quality
                     /\ high_quality' = quality_start
                     /\ iteration' = 0
                     /\ pc' = "kb_probe"
                     /\ UNCHANGED <<ret, path>>
    /\ trail' = <<>>
    /\ UNCHANGED <<args, image, dimIdx, current_quality, compressed_data,
                   best_result, best_stats, kbHistory, hitScales, encModes, encodes>>

\* lines 131-146: the head of the loop over range(max_iterations) and one encode
KbProbe ==
    /\ fn = KB /\ pc = "kb_probe"
    /\ IF LoopDone(iteration, max_iterations)
       THEN /\ pc' = "kb_relaxed"
            /\ UNCHANGED <<current_quality, compressed_data, ret, path, kbHistory,
                           kbTrail, encModes, encodes>>
       ELSE LET q == MidQuality(low_quality, high_quality)
                f == dimension_reductions[dimIdx]
            IN  /\ current_quality' = q
                /\ encModes' = encModes \cup {working_image.mode}
                /\ encodes' = encodes + 1
                /\ IF working_image.mode \notin JpegModes
                   THEN /\ Raise
                        /\ UNCHANGED <<compressed_data, kbHistory, kbTrail>>
                   ELSE \E size \in EncodeSizes(TargetBytes(target_size_kb)) :
                            /\ compressed_data' = Bytes(f, q, size)
                            /\ probes' = probes + 1
                            /\ probedScales' =
                                 IF probedScales # <<>> /\ probedScales[Len(probedScales)] = f
                                 THEN probedScales ELSE Append(probedScales, f)
                            /\ minDelta' =
                                 LET d == Abs(size - TargetBytes(target_size_kb))
                                 IN  IF minDelta < 0 THEN d ELSE Min(minDelta, d)
                            /\ hitScales' =
                                 IF 10 * Abs(size - TargetBytes(target_size_kb))
                                        <= TargetBytes(target_size_kb)
                                 THEN hitScales \cup {f} ELSE hitScales
                            /\ trail' = Append(trail,
                                 [q |-> q, over |-> size > TargetBytes(target_size_kb)])
                            /\ pc' = "kb_judge"
                            /\ UNCHANGED <<ret, path>>
    /\ UNCHANGED <<args, image, dimIdx, working_image, iteration, low_quality,
                   high_quality, best_result, best_stats>>

\* lines 148-177: tight acceptance, the best candidate, the quality range
KbJudge ==
    /\ fn = KB /\ pc = "kb_judge"
    /\ LET t == TargetBytes(target_size_kb)
           size == compressed_data.size
           stats == Stats(working_image.width, working_image.height, size,
                          current_quality, dimension_reductions[dimIdx])
           hi == IF size > t THEN current_quality - 1 ELSE high_quality
           lo == IF size > t THEN low_quality ELSE current_quality + 1
       IN  IF WithinTight(size, t)
           THEN /\ Return(compressed_data, stats, "tight")
                /\ UNCHANGED <<best_result, best_stats, low_quality, high_quality, iteration>>
           ELSE /\ IF IsBetter(size, t)
                   THEN best_result' = compressed_data /\ best_stats' = stats
                   ELSE UNCHANGED <<best_result, best_stats>>
                /\ high_quality' = hi
                /\ low_quality' = lo
                /\ iteration' = iteration + 1
                /\ pc' = IF SearchDone(lo, hi) THEN "kb_relaxed" ELSE "kb_probe"
                /\ UNCHANGED <<ret, path>>
    /\ UNCHANGED <<args, image, dimIdx, working_image, current_quality,
                   compressed_data, kbHistory, kbTrail, encModes, encodes>>

\* lines 179-181: relaxed acceptance at the end of one scale factor
KbRelaxed ==
    /\ fn = KB /\ pc = "kb_relaxed"
    /\ IF best_result # None
          /\ WithinRelaxed(best_stats.compressed_size, TargetBytes(target_size_kb))
       THEN /\ Return(best_result, best_stats, "relaxed")
            /\ UNCHANGED dimIdx
       ELSE /\ dimIdx' = dimIdx + 1
            /\ pc' = "kb_scale"
            /\ UNCHANGED <<ret, path>>
    /\ UNCHANGED <<args, image, working_image, iteration, low_quality, high_quality,
                   current_quality, compressed_data, best_result, best_stats,
                   kbHistory, kbTrail, encModes, encodes>>

\* lines 183-185: best effort
KbBest ==
    /\ fn = KB /\ pc = "kb_best"
    /\ IF best_result # None
       THEN Return(best_result, best_stats, "best")
       ELSE pc' = "kb_fallback" /\ UNCHANGED <<ret, path>>
    /\ UNCHANGED <<args, image, kbLocals, kbHistory, kbTrail, encModes, encodes>>

\* lines 187-198: one encode of the unscaled image at min_quality
KbFallback ==
    /\ fn = KB /\ pc = "kb_fallback"
    /\ encModes' = encModes \cup {image.mode}
    /\ encodes' = encodes + 1
    /\ IF image.mode \notin JpegModes
       THEN /\ Raise
            /\ UNCHANGED compressed_data
       ELSE \E size \in EncodeSizes(TargetBytes(target_size_kb)) :
                /\ compressed_data' = Bytes(10, min_quality, size)
                /\ Return(compressed_data',
                          Stats(image.width, image.height, size, min_quality, 10),
                          "fallback")
    /\ UNCHANGED <<args, image, dimIdx, working_image, iteration, low_quality,
                   high_quality, current_quality, best_result, best_stats, kbHistory,
                   kbTrail>>

(***************************************************************************)
(* process_image_orientation                                               *)
(***************************************************************************)
ORIENT == "process_image_orientation"

\* image.rotate(degrees, expand=True): the canvas grows to hold the turned
\* content, so a quarter turn swaps width and height.
Rotate(img, degrees) ==
    [img EXCEPT !.width = IF degrees \in {90, 270} THEN img.height ELSE img.width,
                !.height = IF degrees \in {90, 270} THEN img.width ELSE img.height,
                !.turned = (img.turned + degrees) % 360]

\* lines 43-49: the rotation chosen for the value of the Orientation tag;
\* 0 stands for "no branch taken".  NoTag is a dict without the tag.
NoTag == -1

\* a changed mapping: 6 and 8 exchanged
RotationFor_exchanged(orientation) ==
    CASE orientation = 3 -> 180
      [] orientation = 6 -> 90
      [] orientation = 8 -> 270
      [] OTHER -> 0

RotationFor(orientation) ==
    CASE orientation = 3 -> 180
      [] orientation = 6 -> 270
      [] orientation = 8 -> 90
      [] OTHER -> 0

\* line 34: the presence check, outside the try block
OrientCheck ==
    /\ fn = ORIENT /\ pc = "or_check"
    /\ CASE exif.kind = "unreadable" -> Raise
         [] exif.kind = "absent" -> ret' = image /\ path' = "absent" /\ pc' = "done"
         [] OTHER -> pc' = "or_try" /\ UNCHANGED <<ret, path>>
    /\ UNCHANGED <<args, image, kbLocals, kbHistory, kbTrail, encModes, encodes>>

\* lines 37-53: the try block, its except clause and the final return
OrientTry ==
    /\ fn = ORIENT /\ pc = "or_try"
    /\ IF tryFails
       THEN ret' = image /\ path' = "except"
       ELSE LET degrees == RotationFor(exif.orientation)
            IN  IF degrees # 0
                THEN ret' = Rotate(image, degrees) /\ path' = "rotated"
                ELSE ret' = image /\ path' = "unchanged"
    /\ pc' = "done"
    /\ UNCHANGED <<args, image, kbLocals, kbHistory, kbTrail, encModes, encodes>>

(***************************************************************************)
(* compress_image                                                          *)
(***************************************************************************)
FIXED == "compress_image"

\* int(dim * ratio) with ratio = min(max_dimension / width, max_dimension /
\* height).  For the sides of the model the float product truncates to the
\* exact quotient.
RatioDim(dim, w, h, md) == (dim * md) \div Max(w, h)

\* ratio < 1
NeedsResize(w, h, md) == Max(w, h) > md

\* lines 62-67: the proportional downscale
FixedResize ==
    /\ fn = FIXED /\ pc = "fx_resize"
    /\ IF NeedsResize(image.width, image.height, max_dimension)
       THEN LET w == RatioDim(image.width, image.width, image.height, max_dimension)
                h == RatioDim(image.height, image.width, image.height, max_dimension)
            IN  IF ResizeOk(w, h)
                THEN /\ image' = [image EXCEPT !.width = w, !.height = h]
                     /\ pc' = "fx_convert"
                     /\ UNCHANGED <<ret, path>>
                ELSE Raise /\ UNCHANGED image
       ELSE pc' = "fx_convert" /\ UNCHANGED <<image, ret, path>>
    /\ UNCHANGED <<args, kbLocals, kbHistory, kbTrail, encModes, encodes>>

\* lines 69-70
FixedConvert ==
    /\ fn = FIXED /\ pc = "fx_convert"
    /\ image' = [image EXCEPT !.mode = ConvertedMode(image.mode)]
    /\ pc' = "fx_encode"
    /\ UNCHANGED <<args, kbLocals, kbHistory, kbTrail, encModes, encodes, ret, path>>

\* lines 72-91: the single encode and the stats
FixedEncode ==
    /\ fn = FIXED /\ pc = "fx_encode"
    /\ encModes' = encModes \cup {image.mode}
    /\ encodes' = encodes + 1
    /\ IF image.mode \notin JpegModes
       THEN Raise /\ UNCHANGED compressed_data
       ELSE \E size \in EncodeSizes(TargetBytes(MinTargetKB)) :
                /\ compressed_data' = Bytes(10, quality, size)
                /\ Return(compressed_data',
                          [final_width |-> image.width, final_height |-> image.height,
                           compressed_size |-> size],
                          "fixed")
    /\ UNCHANGED <<args, image, dimIdx, working_image, iteration, low_quality,
                   high_quality, current_quality, best_result, best_stats, kbHistory,
                   kbTrail>>

(***************************************************************************)
(* The views: compress_single_image and the six size-targeting views.      *)
(* A view validates the upload, reads the form fields, opens the image and *)
(* calls process_image_orientation and one of the two compression          *)
(* functions, whose steps are the actions above; the whole body is inside  *)
(* one try block.                                                          *)
(***************************************************************************)
NoEndpoint == "none"

NoExc == "none"

SINGLE == "compress_single_image"

SizeEndpoints ==
    {"ResizeToKBView.post", "resize_to_50kb_view", "resize_to_100kb_view",
     "compress_to_50kb", "compress_to_100kb", "compress_to_200kb"}

Endpoints == {SINGLE} \cup SizeEndpoints

MB == 1024 * 1024

\* a changed limit: 15MB accepted by every view
SizeLimit_wide(ep) == 15 * MB

\* `if image_file.size > 10 * 1024 * 1024` (15 in compress_to_200kb)
SizeLimit(ep) == IF ep = "compress_to_200kb" THEN 15 * MB ELSE 10 * MB

\* the message of the size check
TooLarge(ep) ==
    IF ep = "compress_to_200kb" THEN "File too large. Maximum size is 15MB"
    ELSE "File too large. Maximum size is 10MB"

\* content types for which content_type.startswith('image/') holds
ImageTypes == {"image/jpeg", "image/png"}

\* the default of request.POST.get('target_size_kb', ...) and of the except clause
DefaultTarget(ep) ==
    CASE ep = "ResizeToKBView.post" -> 20
      [] ep \in {"resize_to_50kb_view", "compress_to_50kb"} -> 50
      [] ep \in {"resize_to_100kb_view", "compress_to_100kb"} -> 100
      [] ep = "compress_to_200kb" -> 200

\* the default of request.POST.get('quality_mode', ...)
DefaultQualityMode(ep) == IF ep = "compress_to_200kb" THEN "premium" ELSE "balanced"

\* the max_iterations the view passes; 10 is the default of the parameter (line 93)
MaxIterationsOf(ep, mode) ==
    CASE ep = "compress_to_50kb" -> IF mode = "high" THEN 15 ELSE 10
      [] ep = "compress_to_100kb" -> IF mode = "premium" THEN 20 ELSE 15
      [] ep = "compress_to_200kb" -> IF mode = "premium" THEN 25 ELSE 20
      [] OTHER -> 10

\* request.POST.get('auto_rotate') == 'true' in compress_single_image,
\* request.POST.get('auto_rotate', 'on') == 'on' in the other views
AutoRotate(ep, field) ==
    IF ep = SINGLE THEN field = "true" ELSE field \in {"absent", "on"}

\* A form field is absent, an integer literal or some other text.
Absent == [kind |-> "absent", val |-> 0]

Text == [kind |-> "text", val |-> 0]

IntField(n) == [kind |-> "int", val |-> n]

\* int(request.POST.get(name, default)): the integer, or ok = FALSE for ValueError
ParseInt(field, default) ==
    CASE field.kind = "absent" -> [ok |-> TRUE, val |-> default]
      [] field.kind = "int" -> [ok |-> TRUE, val |-> field.val]
      [] OTHER -> [ok |-> FALSE, val |-> 0]

\* a changed clamp: no upper limit
ClampTarget_open(n) == IF n < MinTargetKB THEN MinTargetKB ELSE n

\* `if target_size_kb < 5: ... elif target_size_kb > 1000: ...`
ClampTarget(n) ==
    IF n < MinTargetKB THEN MinTargetKB
    ELSE IF n > MaxAllowedKB THEN MaxAllowedKB ELSE n

\* quality = max(10, min(100, quality))
ClampQuality(q) == Max(10, Min(100, q))

\* a changed handler: the message carries str(e)
ErrorMessage_detailed(ep, e) == e

\* the 'error' of the JsonResponse in the except clause; it does not use e
ErrorMessage(ep, e) ==
    CASE ep = "compress_to_50kb" -> "An error occurred while compressing the image to 50KB."
      [] ep = "compress_to_100kb" -> "An error occurred while compressing the image to 100KB."
      [] ep = "compress_to_200kb" -> "An error occurred while compressing the image to 200KB."
      [] OTHER -> "An error occurred while processing the image."

JsonResponse(status, error) == [status |-> status, error |-> error, body |-> None]

HttpResponse(data) == [status |-> 200, error |-> "", body |-> data]

\* what the view's steps leave alone in the called functions
coreLocals == <<kbLocals, kbHistory, kbTrail, encModes, encodes>>

\* the validation of the upload
EpValidate ==
    /\ endpoint # NoEndpoint /\ epc = "ep_validate"
    /\ IF request.file = "missing"
       THEN /\ response' = JsonResponse(400, "No image file provided")
            /\ epc' = "ep_done"
       ELSE IF request.size > SizeLimit(endpoint)
       THEN /\ response' = JsonResponse(400, TooLarge(endpoint))
            /\ epc' = "ep_done"
       ELSE IF request.content_type \notin ImageTypes
       THEN /\ response' = JsonResponse(400, "Invalid file type. Please upload an image.")
            /\ epc' = "ep_done"
       ELSE /\ epc' = "ep_params"
            /\ UNCHANGED response
    /\ UNCHANGED <<fn, pc, image, exif, tryFails, target_size_kb, max_iterations,
                   max_dimension, quality, arg_image, ret, path, coreLocals,
                   endpoint, request, exc, calls>>

\* the form fields: quality in compress_single_image, target_size_kb and
\* max_iterations in the other views
EpParams ==
    /\ endpoint # NoEndpoint /\ epc = "ep_params"
    /\ IF endpoint = SINGLE
       THEN /\ UNCHANGED <<target_size_kb, max_iterations>>
            /\ LET parsed == ParseInt(request.quality, 80)
               IN  IF parsed.ok
                   THEN /\ quality' = ClampQuality(parsed.val)
                        /\ epc' = "ep_open"
                        /\ UNCHANGED exc
                   ELSE /\ exc' = "ValueError: invalid literal for int()"
                        /\ epc' = "ep_except"
                        /\ UNCHANGED quality
       ELSE LET parsed == ParseInt(request.target_size_kb, DefaultTarget(endpoint))
                mode == IF request.quality_mode = "absent"
                        THEN DefaultQualityMode(endpoint) ELSE request.quality_mode
            IN  /\ target_size_kb' = ClampTarget(IF parsed.ok THEN parsed.val
                                                 ELSE DefaultTarget(endpoint))
                /\ max_iterations' = MaxIterationsOf(endpoint, mode)
                /\ epc' = "ep_open"
                /\ UNCHANGED <<quality, exc>>
    /\ UNCHANGED <<fn, pc, image, exif, tryFails, max_dimension, arg_image, ret, path,
                   coreLocals, endpoint, request, response, calls>>

\* the call of compress_image or compress_image_to_kb on img
CallCompress(img) ==
    /\ fn' = IF endpoint = SINGLE THEN FIXED ELSE KB
    /\ pc' = IF endpoint = SINGLE THEN "fx_resize" ELSE "kb_enter"
    /\ image' = img
    /\ arg_image' = IF endpoint = SINGLE THEN img ELSE None
    /\ ret' = None /\ path' = NoPath
    /\ calls' = Append(calls, [fn |-> fn', target_size_kb |-> target_size_kb,
                               max_iterations |-> max_iterations, quality |-> quality])
    /\ epc' = "ep_compress"
    /\ UNCHANGED exc

\* Image.open, and the first call inside the with block
EpOpen ==
    /\ endpoint # NoEndpoint /\ epc = "ep_open"
    /\ IF ~request.decodable
       THEN /\ exc' = "UnidentifiedImageError: cannot identify image file"
            /\ epc' = "ep_except"
            /\ UNCHANGED <<fn, pc, image, arg_image, ret, path, calls>>
       ELSE IF AutoRotate(endpoint, request.auto_rotate)
       THEN /\ fn' = ORIENT
            /\ pc' = "or_check"
            /\ calls' = Append(calls, [fn |-> ORIENT, target_size_kb |-> 0,
                                       max_iterations |-> 0, quality |-> 0])
            /\ epc' = "ep_orient"
            /\ UNCHANGED <<image, arg_image, ret, path, exc>>
       ELSE CallCompress(image)
    /\ UNCHANGED <<exif, tryFails, target_size_kb, max_iterations, max_dimension,
                   quality, coreLocals, endpoint, request, response>>

\* process_image_orientation has ended: `image = process_image_orientation(image)`
EpOriented ==
    /\ endpoint # NoEndpoint /\ epc = "ep_orient" /\ pc \in {"done", "raised"}
    /\ IF pc = "raised"
       THEN /\ exc' = "SyntaxError: not a TIFF file"
            /\ epc' = "ep_except"
            /\ fn' = endpoint
            /\ UNCHANGED <<pc, image, arg_image, ret, path, calls>>
       ELSE CallCompress(ret)
    /\ UNCHANGED <<exif, tryFails, target_size_kb, max_iterations, max_dimension,
                   quality, coreLocals, endpoint, request, response>>

\* the compression function has ended: the download response
EpRespond ==
    /\ endpoint # NoEndpoint /\ epc = "ep_compress" /\ pc \in {"done", "raised"}
    /\ fn' = endpoint
    /\ IF pc = "raised"
       THEN /\ exc' = IF encModes = {} THEN "ValueError: height and width must be > 0"
                                       ELSE "OSError: cannot write mode as JPEG"
            /\ epc' = "ep_except"
            /\ UNCHANGED response
       ELSE /\ response' = HttpResponse(ret.data)
            /\ epc' = "ep_done"
            /\ UNCHANGED exc
    /\ UNCHANGED <<pc, image, exif, tryFails, target_size_kb, max_iterations,
                   max_dimension, quality, arg_image, ret, path, coreLocals,
                   endpoint, request, calls>>

\* `except Exception as e`: the failure response
EpExcept ==
    /\ endpoint # NoEndpoint /\ epc = "ep_except"
    /\ response' = JsonResponse(500, ErrorMessage(endpoint, exc))
    /\ epc' = "ep_done"
    /\ UNCHANGED <<fn, pc, image, exif, tryFails, target_size_kb, max_iterations,
                   max_dimension, quality, arg_image, ret, path, coreLocals,
                   endpoint, request, exc, calls>>

(***************************************************************************)
(* The calls the model makes.                                              *)
(***************************************************************************)
NoImage == [width |-> 0, height |-> 0, mode |-> "RGB", turned |-> 0]

NoExif == [kind |-> "absent", orientation |-> NoTag]

\* Sides of the images handed to the size search: a one-pixel side and a
\* side of MaxSide pixels.
Sides == {1, MaxSide}

\* Sides of the images handed to compress_image: around max_dimension too.
FixedSides == Sides \cup {default_max_dimension, default_max_dimension + 1,
                          2 * default_max_dimension}

\* What image._getexif() may do: raise (malformed metadata), yield nothing,
\* or yield a dict with or without the Orientation tag.
Exifs ==
    {[kind |-> k, orientation |-> NoTag] : k \in {"absent", "unreadable"}}
        \cup {[kind |-> "tags", orientation |-> v] : v \in NoTag..MaxOrientation}

Qualities == {1, min_quality, 80, 100}

InitKB ==
    /\ fn = KB /\ pc = "kb_enter"
    /\ image \in [width : Sides, height : Sides, mode : Modes, turned : {0}]
    /\ target_size_kb \in MinTargetKB..MaxTargetKB
    /\ max_iterations \in 0..MaxIterations
    /\ exif = NoExif /\ tryFails = FALSE
    /\ max_dimension = default_max_dimension /\ quality = 0

InitOrient ==
    /\ fn = ORIENT /\ pc = "or_check"
    /\ image \in [width : Sides, height : Sides, mode : Modes, turned : {0}]
    /\ exif \in Exifs
    /\ tryFails \in BOOLEAN
    /\ target_size_kb = 0 /\ max_iterations = 0
    /\ max_dimension = default_max_dimension /\ quality = 0

InitFixed ==
    /\ fn = FIXED /\ pc = "fx_resize"
    /\ image \in [width : FixedSides, height : FixedSides, mode : Modes, turned : {0}]
    /\ quality \in Qualities
    /\ max_dimension = default_max_dimension
    /\ exif = NoExif /\ tryFails = FALSE
    /\ target_size_kb = 0 /\ max_iterations = 0

InitLocals ==
    /\ dimIdx = 0 /\ working_image = NoImage /\ iteration = 0
    /\ low_quality = 0 /\ high_quality = 0 /\ current_quality = 0
    /\ compressed_data = None /\ best_result = None /\ best_stats = None
    /\ ret = None /\ path = NoPath
    /\ probes = 0 /\ probedScales = <<>> /\ minDelta = -1 /\ encModes = {}
    /\ hitScales = {} /\ trail = <<>> /\ encodes = 0

\* a direct call: no view, no request
InitDirect ==
    /\ endpoint = NoEndpoint /\ epc = "none"
    /\ request = None /\ response = None /\ exc = NoExc /\ calls = <<>>

Init ==
    /\ InitLocals
    /\ InitDirect
    /\ InitKB \/ InitOrient \/ InitFixed
    /\ arg_image = IF fn = FIXED THEN image ELSE None

Next ==
    \/ KbEnter \/ KbScale \/ KbProbe \/ KbJudge \/ KbRelaxed \/ KbBest \/ KbFallback
    \/ OrientCheck \/ OrientTry
    \/ FixedResize \/ FixedConvert \/ FixedEncode

Spec == Init /\ [][Next]_vars

\* The requests the model sends.  A field the view does not read is absent.
FileSizes == {10 * MB, 10 * MB + 1, 15 * MB, 15 * MB + 1}

ContentTypes == {"image/png", "text/plain", ""}

RawTargets ==
    {Absent, Text, IntField(MinTargetKB - 1), IntField(MinTargetKB),
     IntField(MaxAllowedKB + 1)}

RawQualities == {Absent, Text} \cup {IntField(q) : q \in Qualities \cup {9, 101}}

QualityModes(ep) ==
    CASE ep = "compress_to_50kb" -> {"absent", "high"}
      [] ep = "compress_to_100kb" -> {"absent", "premium"}
      [] ep = "compress_to_200kb" -> {"absent", "balanced"}
      [] OTHER -> {"absent"}

Requests(ep) ==
    [file : {"missing", "present"},
     size : FileSizes,
     content_type : ContentTypes,
     decodable : BOOLEAN,
     target_size_kb : IF ep = SINGLE THEN {Absent} ELSE RawTargets,
     quality : IF ep = SINGLE THEN RawQualities ELSE {Absent},
     quality_mode : QualityModes(ep),
     auto_rotate : {"absent", "true"}]

\* What the uploaded file decodes to: the image and its EXIF data.
Picture(img, e, fails) == [image |-> img, exif |-> e, tryFails |-> fails]

Rotated == [kind |-> "tags", orientation |-> 6]

\* with EXIF data read by process_image_orientation
Oriented(images) ==
    {Picture(img, e, FALSE) : img \in images, e \in {NoExif, Rotated,
                                 [kind |-> "unreadable", orientation |-> NoTag]}}
        \cup {Picture(img, Rotated, TRUE) : img \in images}

Plain(images) == {Picture(img, NoExif, FALSE) : img \in images}

\* pictures for compress_single_image: small ones and ones beyond max_dimension
SinglePictures ==
    [width : {1, 2 * default_max_dimension},
     height : {1, MaxSide, 2 * default_max_dimension},
     mode : {"RGB", "LA"}, turned : {0}]

\* pictures for the size-targeting views: one pixel wide
SmallPictures == [width : {1}, height : {MaxSide}, mode : {"RGB", "LA"}, turned : {0}]

\* the form submitted with every field left out
PlainRequest ==
    [file |-> "present", size |-> 10 * MB, content_type |-> "image/png",
     decodable |-> TRUE, target_size_kb |-> Absent, quality |-> Absent,
     quality_mode |-> "absent", auto_rotate |-> "true"]

\* and one picture of MaxSide x MaxSide pixels, which the search can take
\* through all six scale factors
FullPicture ==
    Picture([width |-> MaxSide, height |-> MaxSide, mode |-> "RGB", turned |-> 0],
            NoExif, FALSE)

Pictures(ep, req) ==
    LET images == IF ep = SINGLE THEN SinglePictures ELSE SmallPictures
    IN  (IF AutoRotate(ep, req.auto_rotate) THEN Oriented(images) ELSE Plain(images))
            \cup (IF ep = "resize_to_50kb_view" /\ req = PlainRequest
                  THEN {FullPicture} ELSE {})

EpInit ==
    /\ InitLocals
    /\ endpoint \in Endpoints
    /\ epc = "ep_validate"
    /\ request \in Requests(endpoint)
    /\ \E p \in Pictures(endpoint, request) :
           image = p.image /\ exif = p.exif /\ tryFails = p.tryFails
    /\ response = None /\ exc = NoExc /\ calls = <<>>
    /\ fn = endpoint /\ pc = "idle"
    /\ target_size_kb = 0 /\ max_iterations = 0 /\ quality = 0
    /\ max_dimension = default_max_dimension
    /\ arg_image = None

\* The views pass max_iterations of 10 or more (lines 334, 585, 668, 785, 896,
\* 1015), so a request does not reach lines 187-198.
EpNext ==
    \/ EpValidate \/ EpParams \/ EpOpen \/ EpOriented \/ EpRespond \/ EpExcept
    \/ KbEnter \/ KbScale \/ KbProbe \/ KbJudge \/ KbRelaxed \/ KbBest
    \/ OrientCheck \/ OrientTry
    \/ FixedResize \/ FixedConvert \/ FixedEncode

EndpointSpec == EpInit /\ [][EpNext]_vars

\* The calls of the termination check: every function, every image side and
\* every max_iterations; of the size search's other arguments, which do not
\* bear on its control flow once an encode succeeds, the smallest target and
\* the modes RGB (encoded as is), P (converted) and LA (refused by the codec).
FairInit ==
    /\ Init
    /\ fn = KB => (target_size_kb = MinTargetKB /\ image.mode \in {"RGB", "P", "LA"})

\* A call runs to its end: the interpreter keeps executing it.
FairSpec == FairInit /\ [][Next]_vars /\ WF_vars(Next)

(***************************************************************************)
(* Properties.                                                             *)
(***************************************************************************)
Target == 1024 * target_size_kb

Deviation(size) == Abs(size - Target)

IsPrefix(s, t) == Len(s) <= Len(t) /\ \A i \in 1..Len(s) : s[i] = t[i]

KbReturned == fn = KB /\ pc = "done"

\* C1: with max_iterations >= 1, a result of compress_image_to_kb is within
\* 10% of the target, or all six scale factors were probed and the result has
\* the smallest deviation from the target of all probes made in the call.
C1_ToleranceOrBestEffort ==
    (KbReturned /\ max_iterations >= 1) =>
        \/ 10 * Deviation(ret.stats.compressed_size) <= Target
        \/ /\ probedScales = <<10, 9, 8, 7, 6, 5>>
           /\ Deviation(ret.stats.compressed_size) = minDelta
           /\ ret.data.size = ret.stats.compressed_size

C1_Witness ==
    /\ KbReturned /\ max_iterations >= 1 /\ path = "best"
    /\ 10 * Deviation(ret.stats.compressed_size) > Target
    /\ ret.stats.dimension_factor < 10

\* C2: compress_image_to_kb never ends in an error: whatever the sides and the
\* colour mode of the image, the target and max_iterations, it does not raise.
C2_NeverRaises == fn = KB => pc # "raised"

\* C3: compress_image_to_kb terminates, and at no point of a call has it made
\* more than 6 * max_iterations encode probes.
C3_TerminatesBounded ==
    /\ [](fn = KB => probes <= 6 * max_iterations)
    /\ (fn = KB => <>(pc \in {"done", "raised"}))

C3_Witness == KbReturned /\ max_iterations >= 2 /\ probes = 6 * max_iterations

\* C4: on every return path of compress_image_to_kb, stats['quality_used'] is
\* an integer from 10 to 95.
C4_QualityRange == KbReturned => ret.stats.quality_used \in 10..95

C4_Witness ==
    /\ KbReturned /\ path = "relaxed" /\ ret.stats.quality_used = 94

\* C5: the scale factors at which probes are made form, in order, a prefix of
\* [1.0, 0.9, 0.8, 0.7, 0.6, 0.5], and the returned dimension_factor is one of
\* these six values.
C5_ScaleOrder ==
    fn = KB =>
        /\ IsPrefix(probedScales, <<10, 9, 8, 7, 6, 5>>)
        /\ (pc = "done" => ret.stats.dimension_factor \in {10, 9, 8, 7, 6, 5})

C5_Witness ==
    /\ KbReturned /\ probedScales = <<10, 9, 8, 7, 6, 5>>
    /\ ret.stats.dimension_factor = 9

\* C6: a probe whose size is within 5% of the target (the boundary included)
\* is returned at once, bytes and stats, and no other probe is made.
C6_TightAcceptance ==
    [][(fn = KB /\ pc = "kb_judge" /\ 20 * Deviation(compressed_data.size) <= Target)
         => /\ pc' = "done"
            /\ ret' = [data |-> compressed_data,
                       stats |-> [final_width |-> working_image.width,
                                  final_height |-> working_image.height,
                                  compressed_size |-> compressed_data.size,
                                  quality_used |-> current_quality,
                                  dimension_factor |-> probedScales[Len(probedScales)]]]
            /\ probes' = probes]_vars

C6_Witness ==
    /\ KbReturned /\ path = "tight" /\ probes >= 2
    /\ 20 * Deviation(ret.stats.compressed_size) = Target

\* C7: when the probes at a scale factor have ended and the best candidate of
\* the call is within 10% of the target (the boundary included), that
\* candidate is returned and no smaller scale is probed; the 10% band is not
\* applied while probes at the scale remain.
C7_RelaxedAcceptance ==
    [][fn = KB =>
        /\ (pc = "kb_relaxed" /\ best_result # None
               /\ 10 * Deviation(best_stats.compressed_size) <= Target)
             => (pc' = "done" /\ probes' = probes
                    /\ ret' = [data |-> best_result, stats |-> best_stats])
        /\ (pc = "kb_judge" /\ 20 * Deviation(compressed_data.size) > Target)
             => pc' # "done"
        /\ (pc' = "kb_relaxed")
             => (iteration' >= max_iterations \/ low_quality' >= high_quality')
        /\ (pc' = "done" /\ path' = "relaxed") => pc = "kb_relaxed"]_vars

C7_Witness ==
    /\ KbReturned /\ path = "relaxed"
    /\ 10 * Deviation(ret.stats.compressed_size) = Target
    /\ ret.stats.quality_used # current_quality

\* C8: when the metadata is read without error, process_image_orientation
\* turns the image by 180 degrees for tag value 3, 270 for 6 and 90 for 8, and
\* returns it unchanged for every other value and for an absent tag; width and
\* height are exchanged exactly for the values 6 and 8.
C8_OrientationMapping ==
    (fn = ORIENT /\ pc = "done" /\ ~(tryFails /\ exif.kind = "tags")) =>
        LET v == IF exif.kind = "tags" THEN exif.orientation ELSE -1
            turn == IF v = 3 THEN 180 ELSE IF v = 6 THEN 270 ELSE IF v = 8 THEN 90 ELSE 0
        IN  /\ ret.turned = turn
            /\ ret.mode = image.mode
            /\ IF v \in {6, 8}
               THEN ret.width = image.height /\ ret.height = image.width
               ELSE ret.width = image.width /\ ret.height = image.height
            /\ (turn = 0 => ret = image)

C8_Witness ==
    /\ fn = ORIENT /\ pc = "done" /\ exif.orientation = 6
    /\ image.width # image.height
    /\ ret.turned = 270 /\ ret.width = image.height

\* C9: process_image_orientation never raises: when reading or interpreting
\* the metadata fails at any point, the presence check included, it returns
\* the image it was given.
C9_NeverRaises ==
    fn = ORIENT =>
        /\ pc # "raised"
        /\ (pc = "done" /\ (exif.kind = "unreadable" \/ (tryFails /\ exif.kind = "tags")))
             => ret = image

\* C10: every image handed to a JPEG encode by compress_image or
\* compress_image_to_kb is in mode RGB, whatever the mode of the input.
C10_EncodesRGB == fn \in {KB, FIXED} => encModes \subseteq {"RGB"}


\* round(n / 10) as Python 3 computes it: to the nearest integer, a half to the even one
RoundTenths(n) ==
    LET q == n \div 10
        r == n % 10
    IN  IF r < 5 THEN q
        ELSE IF r > 5 THEN q + 1
        ELSE IF q % 2 = 0 THEN q ELSE q + 1

\* the search of compress_image_to_kb holds a resampled copy of the image
KbResampled ==
    /\ fn = KB
    /\ pc \in {"kb_probe", "kb_judge", "kb_relaxed"}
    /\ dimIdx \in 2..Len(dimension_reductions)

\* C11: an image resampled by a scale factor f < 1 has the sides round(origWidth * f)
\* and round(origHeight * f), and so do final_width and final_height of the stats.
C11_RoundedDimensions ==
    /\ KbResampled =>
          LET f == dimension_reductions[dimIdx]
          IN  /\ working_image.width = RoundTenths(image.width * f)
              /\ working_image.height = RoundTenths(image.height * f)
    /\ (KbReturned /\ ret.stats.dimension_factor < 10) =>
          /\ ret.stats.final_width = RoundTenths(image.width * ret.stats.dimension_factor)
          /\ ret.stats.final_height = RoundTenths(image.height * ret.stats.dimension_factor)

\* compress_image is past its resampling step
FixedResampled == fn = FIXED /\ pc \in {"fx_convert", "fx_encode", "done"}

\* C12: compress_image resamples exactly when the longer side exceeds
\* max_dimension; then both sides are multiplied by max_dimension / max(width,
\* height), the longer final side is at most max_dimension and both final sides
\* are at least 1; otherwise the sides are those of the input.
C12_ProportionalDownscale ==
    fn = FIXED =>
        LET w == arg_image.width
            h == arg_image.height
        IN  /\ (pc = "raised" /\ encModes = {}) => FALSE
            /\ FixedResampled =>
                 IF Max(w, h) > max_dimension
                 THEN /\ image.width = (w * max_dimension) \div Max(w, h)
                      /\ image.height = (h * max_dimension) \div Max(w, h)
                      /\ Max(image.width, image.height) <= max_dimension
                      /\ image.width >= 1 /\ image.height >= 1
                 ELSE image.width = w /\ image.height = h
            /\ pc = "done" =>
                 /\ ret.stats.final_width = image.width
                 /\ ret.stats.final_height = image.height

(***************************************************************************)
(* Properties of the views.                                                *)
(***************************************************************************)
\* the view has answered
Answered == endpoint # NoEndpoint /\ epc = "ep_done"

\* C13: for every requested quality q in [1,100] the fixed-quality path
\* (compress_single_image calling compress_image) makes exactly one JPEG encode,
\* and that encode uses quality q.
C13_OneEncodeAtRequestedQuality ==
    (/\ endpoint = SINGLE
     /\ Answered
     /\ response.status = 200
     /\ request.quality.kind = "int"
     /\ request.quality.val \in 1..100)
        => /\ encodes = 1
           /\ response.body.quality = request.quality.val

\* the calls of compress_image_to_kb a view has made
KbCalls == {i \in 1..Len(calls) : calls[i].fn = KB}

Refused ==
    /\ endpoint # NoEndpoint
    /\ \/ request.file = "missing"
       \/ request.size > (IF endpoint = "compress_to_200kb" THEN 15 ELSE 10) * 1024 * 1024
       \/ request.content_type \in {"text/plain", ""}

\* C15: in every compression view a request with a missing file, with more than
\* 10MB (15MB in compress_to_200kb) or with a content type that does not start
\* with 'image/' is answered with status 400 by the first step, and neither
\* process_image_orientation nor a compression function is called for it.
C15_RefusedBeforeWork ==
    /\ [](Refused => /\ calls = <<>>
                     /\ fn = endpoint
                     /\ encodes = 0
                     /\ epc \in {"ep_validate", "ep_done"}
                     /\ Answered => response.status = 400)
    /\ [][(Refused /\ epc = "ep_validate") =>
              (epc' = "ep_done" /\ response'.status = 400 /\ response'.body = None)]_vars

\* a file of 10MB and one byte was refused where the limit is 10MB, and one of
\* 15MB and one byte by compress_to_200kb
C15_Witness ==
    /\ Answered
    /\ response.status = 400
    /\ request.file = "present"
    /\ request.content_type = "image/png"
    /\ \/ endpoint = "compress_to_50kb" /\ request.size = 10 * 1024 * 1024 + 1
       \/ endpoint = "compress_to_200kb" /\ request.size = 15 * 1024 * 1024 + 1

\* C16: a failure raised while decoding, normalizing the orientation, resampling or
\* encoding inside a compression view, or by an unparsable quality in
\* compress_single_image, is answered with a failure response whose message is
\* fixed and carries no detail of the exception; no exception leaves the view
\* and no image is returned.
C16_FailuresAnswered ==
    endpoint # NoEndpoint =>
        /\ (pc = "raised" /\ fn = endpoint) => exc # NoExc
        /\ exc # NoExc => epc \in {"ep_except", "ep_done"}
        /\ (Answered /\ exc # NoExc) =>
             /\ response.status = 500
             /\ response.body = None
             /\ response.error # exc
             /\ response.error \in
                  {"An error occurred while processing the image.",
                   "An error occurred while compressing the image to 50KB.",
                   "An error occurred while compressing the image to 100KB.",
                   "An error occurred while compressing the image to 200KB."}
        /\ (Answered /\ response.status = 200) =>
             /\ exc = NoExc
             /\ pc = "done"
             /\ response.body = ret.data

\* each kind of failure was answered with status 500
C16_Witness ==
    /\ Answered
    /\ response.status = 500
    /\ \/ endpoint = SINGLE /\ request.quality = Text
       \/ endpoint = "compress_to_50kb" /\ ~request.decodable
       \/ exif.kind = "unreadable" /\ calls # <<>>
       \/ pc = "raised" /\ encModes = {"LA"}
       \/ pc = "raised" /\ encModes = {} /\ KbCalls # {}

(***************************************************************************)
(* Properties of the quality search.                                       *)
(***************************************************************************)
\* C17: at any one scale factor the binary search from low = 10, high = 95 makes
\* at most 7 probes before low >= high, whatever the sizes the encodes return
\* and whatever max_iterations allows.
C17_ProbesPerScale ==
    fn = KB =>
        /\ Len(trail) <= 7
        /\ iteration <= 7
        /\ (pc = "kb_probe" /\ ~LoopDone(iteration, max_iterations)) =>
             (iteration = 0 \/ low_quality < high_quality)

\* a search that max_iterations would have let run on ended with low >= high
\* after its sixth probe, at a reduced scale
C17_Witness ==
    /\ fn = KB
    /\ pc = "kb_relaxed"
    /\ max_iterations > 7
    /\ Len(trail) = 6
    /\ low_quality >= high_quality
    /\ dimIdx > 1

\* C18: if compress_image_to_kb returns with dimension_factor f, no probe at a
\* scale factor larger than f came within 10% of the target: the resolution is
\* reduced only when every probe at every larger scale missed the 10% band.
C18_NoEarlierHit ==
    /\ KbReturned => \A g \in hitScales : g <= ret.stats.dimension_factor
    /\ (fn = KB /\ pc \in {"kb_scale", "kb_probe"} /\ dimIdx \in 1..Len(dimension_reductions)) =>
          \A g \in hitScales : g <= dimension_reductions[dimIdx]

\* a result at scale 0.8 after probes at 1.0 and 0.9 that all missed the band
C18_Witness ==
    /\ KbReturned
    /\ ret.stats.dimension_factor = 8
    /\ probedScales = <<10, 9, 8>>
    /\ hitScales = {8}

\* the probes made so far at this scale factor are ordered as a binary search
\* orders them
TrailOrdered ==
    \A i \in 1..Len(trail) : \A j \in (i + 1)..Len(trail) :
        /\ trail[j].q # trail[i].q
        /\ trail[i].over => trail[j].q < trail[i].q
        /\ ~trail[i].over => trail[j].q > trail[i].q

\* the step that follows a probe at current_quality which was not accepted
Narrowed ==
    /\ IF compressed_data.size > Target
       THEN high_quality' = current_quality - 1 /\ low_quality' = low_quality
       ELSE low_quality' = current_quality + 1 /\ high_quality' = high_quality
    /\ (pc' = "kb_probe") <=> (low_quality' < high_quality')

\* C19: within one scale factor, after a probe at quality q the search sets
\* high = q - 1 if the size exceeds the target and low = q + 1 otherwise, the
\* next probe is at (low + high) // 2, and probing stops as soon as low >= high;
\* so no quality is probed twice at a scale, and after a probe over the target
\* every later probe at that scale has a lower quality (a higher one after a
\* probe not over it).
C19_BinarySearchSteps ==
    /\ [](fn = KB => TrailOrdered)
    /\ [][(fn = KB /\ pc = "kb_judge" /\ pc' \in {"kb_probe", "kb_relaxed"}) => Narrowed]_vars
    /\ [][(fn = KB /\ pc = "kb_probe" /\ pc' = "kb_judge") =>
              /\ current_quality' = (low_quality + high_quality) \div 2
              /\ low_quality < high_quality \/ iteration = 0]_vars

\* a scale with a probe over the target, then one under it, then a third between
\* the two
C19_Witness ==
    /\ fn = KB
    /\ pc = "kb_judge"
    /\ Len(trail) = 3
    /\ trail[1].over /\ ~trail[2].over
    /\ trail[2].q < trail[3].q /\ trail[3].q < trail[1].q
    /\ dimIdx > 1

\* C20: the best candidate belongs to the whole call: it is not reset when a new
\* scale factor starts, it is replaced only by a probe whose deviation from the
\* target is strictly smaller, so its deviation never increases, and on equal
\* deviation the earlier probe (the larger scale) is kept.
C20_BestMonotone ==
    [][fn = KB =>
          /\ best_result # None =>
               /\ best_result' # None
               /\ Deviation(best_stats'.compressed_size) <= Deviation(best_stats.compressed_size)
          /\ (best_result' # best_result \/ best_stats' # best_stats) =>
               /\ pc = "kb_judge"
               /\ best_result' = compressed_data
               /\ best_stats'.quality_used = current_quality
               /\ best_stats'.dimension_factor = dimension_reductions[dimIdx]
               /\ best_result # None =>
                    Deviation(compressed_data.size) < Deviation(best_stats.compressed_size)
    ]_vars

\* a probe at a smaller scale came as close as the best candidate, on the other
\* side of the target, and the candidate of scale 1.0 was kept
C20_Witness ==
    /\ fn = KB
    /\ pc \in {"kb_probe", "kb_relaxed"}
    /\ dimIdx > 1
    /\ best_result # None
    /\ best_stats.dimension_factor = 10
    /\ compressed_data # best_result
    /\ compressed_data.factor = dimension_reductions[dimIdx]
    /\ Deviation(compressed_data.size) = Deviation(best_stats.compressed_size)
    /\ compressed_data.size # best_stats.compressed_size

(***************************************************************************)
(* Properties of the result.                                               *)
(***************************************************************************)
\* the stats dict st describes the encode that produced the bytes data
Describes(st, data) ==
    /\ st.compressed_size = data.size
    /\ st.quality_used = data.quality
    /\ st.dimension_factor = data.factor
    /\ st.final_width =
         (IF data.factor = 10 THEN image.width ELSE (image.width * data.factor) \div 10)
    /\ st.final_height =
         (IF data.factor = 10 THEN image.height ELSE (image.height * data.factor) \div 10)

\* C21: in every result of compress_image_to_kb the stats describe the very probe
\* that produced the returned bytes: compressed_size is the length of the bytes,
\* and quality_used, dimension_factor, final_width and final_height are those of
\* that encode; best_result and best_stats are never out of step.
C21_StatsOfReturnedBytes ==
    fn = KB =>
        /\ (best_result = None) <=> (best_stats = None)
        /\ best_result # None => Describes(best_stats, best_result)
        /\ pc = "done" => Describes(ret.stats, ret.data)

\* the best candidate of scale 1.0 was returned after the last scale factor, whose
\* last probe differs from it in scale, quality and size
C21_Witness ==
    /\ KbReturned
    /\ path = "best"
    /\ ret.stats.dimension_factor = 10
    /\ compressed_data.factor < 10
    /\ compressed_data.quality # ret.data.quality
    /\ compressed_data.size # ret.data.size

\* C22: the absolute fallback of compress_image_to_kb (one encode at quality 10,
\* unscaled, dimension_factor 1.0) is taken only when no probe was made in the
\* call (max_iterations <= 0); when at least one probe was made, what the
\* function returns is a probed candidate.
C22_FallbackOnlyWithoutProbe ==
    fn = KB =>
        /\ (pc = "kb_fallback" \/ path = "fallback") =>
             /\ probes = 0
             /\ max_iterations <= 0
             /\ best_result = None
        /\ (pc = "done" /\ path = "fallback") =>
             /\ encodes = 1
             /\ ret.data.quality = 10
             /\ ret.stats.quality_used = 10
             /\ ret.stats.dimension_factor = 10
             /\ ret.stats.final_width = image.width
             /\ ret.stats.final_height = image.height
        /\ (pc = "done" /\ probes > 0) =>
             /\ path \in {"tight", "relaxed", "best"}
             /\ ret.data \in {compressed_data, best_result}
             /\ encodes = probes

\* a call with max_iterations = 0 went through all six scale factors without a
\* probe and returned the fallback encode
C22_Witness ==
    /\ KbReturned
    /\ path = "fallback"
    /\ max_iterations = 0
    /\ probes = 0
    /\ dimIdx > Len(dimension_reductions)
    /\ working_image.width < image.width

\* C23: on every return path of compress_image_to_kb that follows at least one
\* probe (tight acceptance, relaxed acceptance, best effort) the returned
\* candidate has the smallest |size - target| of all probes made in the call up
\* to the return.
C23_ReturnsClosestProbe ==
    fn = KB =>
        /\ (pc = "done" /\ probes > 0) =>
             /\ Deviation(ret.data.size) = minDelta
             /\ Deviation(ret.stats.compressed_size) = minDelta
        /\ (pc \in {"kb_scale", "kb_probe", "kb_relaxed", "kb_best"} /\ probes > 0) =>
             /\ best_result # None
             /\ Deviation(best_result.size) = minDelta

\* a probe at a reduced scale was accepted within 5% while the best candidate of
\* the earlier probes was farther from the target
C23_Witness ==
    /\ KbReturned
    /\ path = "tight"
    /\ dimIdx > 1
    /\ probes >= 3
    /\ best_result # None
    /\ Deviation(best_result.size) > Deviation(ret.data.size)
    /\ Deviation(ret.data.size) = minDelta

C25_ProbedQualityRange ==
    fn = KB =>
        /\ \A i \in 1..Len(trail) : trail[i].q \in 11..94
        /\ (probes > 0 /\ path # "fallback") =>
             /\ current_quality \in 11..94
             /\ compressed_data.quality \in 11..94
        /\ best_result # None => best_stats.quality_used \in 11..94
        /\ (pc = "done" /\ path # "fallback") => ret.stats.quality_used \in 11..94

\* at a reduced scale every probe was over the target down to quality 11, and the
\* search ended there with low = high = 10, without an encode at quality 10
C25_Witness ==
    /\ fn = KB
    /\ pc = "kb_relaxed"
    /\ dimIdx > 1
    /\ Len(trail) = 5
    /\ trail[5].q = 11
    /\ \A i \in 1..5 : trail[i].over
    /\ low_quality = 10 /\ high_quality = 10

====
